---- MODULE Spec2Model ----
(***************************************************************************)
(* The deterministic "best purchase day" computation of verify_sha256.py:  *)
(* a CSV text is read and split into rows, the rows are sorted by the date *)
(* key of their time field, the last row anchors the "next month", the     *)
(* rows are serialised over HASH_COLUMNS, hashed, and the first 8 hex      *)
(* digits of the digest select a day of the next month.                    *)
(*                                                                         *)
(* Python strings are TLA+ strings; Python lists are sequences; a row      *)
(* (dict) is a function from the header names to the cell strings.         *)
(***************************************************************************)
EXTENDS Integers, Sequences, FiniteSets, TLC

VARIABLES
    csv,          \* csv[c]: the text of the file that call c reads
    pc,           \* pc[c]: where call c of compute_best_day stands
    lines,        \* lines[c]: the local `lines`
    header,       \* header[c]: the local `header`
    rows,         \* rows[c]: the local `rows`
    last_time,    \* last_time[c]: the local `last_time`
    last_month,   \* last_month[c]
    last_year,    \* last_year[c]
    next_mo,      \* next_mo[c]
    next_yr,      \* next_yr[c]
    days_in_mo,   \* days_in_mo[c]
    full_string,  \* full_string[c]: the canonical string that is hashed
    ret,          \* ret[c]: the dict compute_best_day returned, or NoResult
    exc,          \* exc[c]: the exception that ended call c, or NoExc
    t,            \* the argument of a direct call of parse_date_key
    key,          \* what that call produced, or NotCalled
    rng,          \* rng[s]: the state of module random in the run of script s
    gpc,          \* gpc[s]: where the run of generator script s stands
    gi,           \* the number of scenarios main's loop has written
    grows,        \* grows[s]: the rows main holds (rows1, or rows of generate_data)
    disk          \* disk[path]: the text of each file written so far

vars == <<csv, pc, lines, header, rows, last_time, last_month, last_year,
          next_mo, next_yr, days_in_mo, full_string, ret, exc, t, key,
          rng, gpc, gi, grows, disk>>

genVars == <<rng, gpc, gi, grows, disk>>

callVars == <<csv, pc, lines, header, rows, last_time, last_month, last_year,
              next_mo, next_yr, days_in_mo, full_string, ret, exc>>

Calls == {1, 2}

(***************************************************************************)
(* Outcomes of a Python expression: a value, or a raised exception with    *)
(* the source line that raised it.                                         *)
(***************************************************************************)
Ok(v) == [exc |-> "", val |-> v]
Raise(type, line) == [exc |-> type, line |-> line]
Raised(o) == o.exc # ""

NoExc == [exc |-> "", line |-> 0]
NoResult == [rows |-> -1]
NotCalled == [exc |-> "not called"]

(***************************************************************************)
(* Python string built-ins used by the script.                             *)
(***************************************************************************)
Ch(s, i) == SubSeq(s, i, i)

\* str.strip() with no argument removes ASCII whitespace at both ends.
IsSpace(c) == c \in {" ", "\t", "\n", "\r"}

RECURSIVE LStrip(_)
LStrip(s) ==
    IF Len(s) > 0 /\ IsSpace(Ch(s, 1)) THEN LStrip(SubSeq(s, 2, Len(s))) ELSE s

RECURSIVE RStrip(_)
RStrip(s) ==
    IF Len(s) > 0 /\ IsSpace(Ch(s, Len(s)))
    THEN RStrip(SubSeq(s, 1, Len(s) - 1)) ELSE s

Strip(s) == RStrip(LStrip(s))

\* the index of the first occurrence of the character ch in s[lo..hi], or 0,
\* by halves
RECURSIVE FindIn(_, _, _, _)
FindIn(s, ch, lo, hi) ==
    IF lo > hi THEN 0
    ELSE IF lo = hi THEN (IF Ch(s, lo) = ch THEN lo ELSE 0)
    ELSE LET mid == (lo + hi) \div 2
             left == FindIn(s, ch, lo, mid)
         IN  IF left # 0 THEN left ELSE FindIn(s, ch, mid + 1, hi)

\* the index of the first occurrence of the character ch in s at or after i, or 0
Find(s, ch, i) == FindIn(s, ch, i, Len(s))

\* str.split(sep) for a one-character separator: never empty, '' gives ['']
RECURSIVE Split(_, _)
Split(s, sep) ==
    LET i == Find(s, sep, 1)
    IN  IF i = 0 THEN <<s>>
        ELSE <<SubSeq(s, 1, i - 1)>> \o Split(SubSeq(s, i + 1, Len(s)), sep)

\* sep.join(parts[lo..hi]), by halves
RECURSIVE JoinRange(_, _, _, _)
JoinRange(parts, lo, hi, sep) ==
    IF lo > hi THEN ""
    ELSE IF lo = hi THEN parts[lo]
    ELSE LET mid == (lo + hi) \div 2
         IN  JoinRange(parts, lo, mid, sep) \o sep \o JoinRange(parts, mid + 1, hi, sep)

\* sep.join(parts)
Join(parts, sep) == JoinRange(parts, 1, Len(parts), sep)

Digits == "0123456789"
IsDigit(c) == Len(c) = 1 /\ Find(Digits, c, 1) # 0
DigitVal(c) == Find(Digits, c, 1) - 1

RECURSIVE AllDigits(_)
AllDigits(s) ==
    Len(s) = 0 \/ (IsDigit(Ch(s, 1)) /\ AllDigits(SubSeq(s, 2, Len(s))))

RECURSIVE DecVal(_)
DecVal(s) ==
    IF Len(s) = 0 THEN 0
    ELSE 10 * DecVal(SubSeq(s, 1, Len(s) - 1)) + DigitVal(Ch(s, Len(s)))

\* int(s): surrounding whitespace is ignored, one sign is allowed, then at
\* least one decimal digit; anything else raises ValueError. (Python also
\* accepts single underscores between digits; no input here holds one.)
IntBody(s) ==
    LET u == Strip(s)
    IN  IF Len(u) > 0 /\ Ch(u, 1) \in {"+", "-"} THEN SubSeq(u, 2, Len(u)) ELSE u

IntOk(s) == Len(IntBody(s)) > 0 /\ AllDigits(IntBody(s))

IntVal(s) ==
    LET u == Strip(s)
    IN  IF Len(u) > 0 /\ Ch(u, 1) = "-" THEN 0 - DecVal(IntBody(s))
        ELSE DecVal(IntBody(s))

\* str(n) of an integer
RECURSIVE StrNat(_)
StrNat(n) ==
    IF n < 10 THEN Ch(Digits, n + 1)
    ELSE StrNat(n \div 10) \o Ch(Digits, (n % 10) + 1)

Str(n) == IF n < 0 THEN "-" \o StrNat(0 - n) ELSE StrNat(n)

\* the zeros are put behind the digits
RECURSIVE ZFillRight(_, _)
ZFillRight(s, width) == IF Len(s) >= width THEN s ELSE ZFillRight(s \o "0", width)

\* s.zfill(width), for the unsigned strings the script pads
RECURSIVE ZFill(_, _)
ZFill(s, width) == IF Len(s) >= width THEN s ELSE ZFill("0" \o s, width)

(***************************************************************************)
(* parse_date_key                                                          *)
(***************************************************************************)
parse_date_key(tm) ==
    LET parts == Split(Strip(tm), "/")
    IN  IF Len(parts) = 3 /\ Len(parts[3]) = 4
        THEN IF IntOk(parts[3]) /\ IntOk(parts[2]) /\ IntOk(parts[1])
             THEN Ok(<<IntVal(parts[3]), IntVal(parts[2]), IntVal(parts[1])>>)
             ELSE Raise("ValueError", 23)
        ELSE Ok(<<0, 0, 0>>)

(***************************************************************************)
(* The fixed column list of the canonical string.                          *)
(***************************************************************************)
HASH_COLUMNS == <<
    "time", "year", "month", "week_of_year", "day_of_week",
    "is_market_open", "is_flood_crisis", "is_lockdown",
    "Avg.Price (Rs./Kg)", "MaxPrice (Rs./Kg)", "Daily_Spread",
    "Total Qty Arrived (Kgs)", "Qty Sold (Kgs)", "Smooth_Qty_Arrived", "Auctioneer",
    "temperature_2m_mean (°C)", "temperature_2m_max (°C)", "temperature_2m_min (°C)", "Temp_Diff",
    "precipitation_sum (mm)", "relative_humidity_2m_mean (%)",
    "soil_moisture_0_to_7cm_mean (m³/m³)", "et0_fao_evapotranspiration (mm)",
    "Precip_7D", "RH_7D",
    "Lag1", "Lag7", "Lag14", "Lag30", "Lag_MaxPrice_1", "Lag_Spread_1",
    "MA7", "MA14", "MA30",
    "Lag_Qty_Sold_1", "Lag_Total_Qty_Arrived_1",
    "Precip_30D_Sum", "Precip_Lag_60", "Soil_Moisture_Lag_14" >>

(***************************************************************************)
(* Reading the file and building the rows (lines 27-37).                   *)
(***************************************************************************)
\* the text with every "\r\n" and every other "\r" of s[lo..hi] turned into
\* "\n", by halves
RECURSIVE Translated(_, _, _)
Translated(s, lo, hi) ==
    IF lo > hi THEN ""
    ELSE IF lo = hi
         THEN IF Ch(s, lo) # "\r" THEN Ch(s, lo)
              ELSE IF lo < Len(s) /\ Ch(s, lo + 1) = "\n" THEN "" ELSE "\n"
    ELSE LET mid == (lo + hi) \div 2
         IN  Translated(s, lo, mid) \o Translated(s, mid + 1, hi)

\* open(csv_path, 'r') reads in text mode with universal newlines
UniversalNewlines(text) ==
    IF Find(text, "\r", 1) = 0 THEN text ELSE Translated(text, 1, Len(text))

\* f.read().strip().split('\n')
ReadLines(text) == Split(Strip(UniversalNewlines(text)), "\n")

\* the names of the header are ignored and the columns are taken to stand in
\* the order of HASH_COLUMNS
ParseHeaderFixed(ls) ==
    LET hs == Split(ls[1], ",") IN [i \in 1..Len(hs) |-> HASH_COLUMNS[i]]

\* [h.strip() for h in lines[0].split(',')]
ParseHeader(ls) ==
    LET hs == Split(ls[1], ",") IN [i \in 1..Len(hs) |-> Strip(hs[i])]

\* vals[i].strip() if i < len(vals) else ''     (i counted from 1 here)
Cell(vals, i) == IF i <= Len(vals) THEN Strip(vals[i]) ELSE ""

\* the row dict of one data line: a later column of the same name overwrites
\* an earlier one
ParseRow(hd, line) ==
    LET vals == Split(line, ",")
        last(h) == CHOOSE i \in 1..Len(hd) :
                       hd[i] = h /\ \A j \in (i + 1)..Len(hd) : hd[j] # h
    IN  [h \in {hd[i] : i \in 1..Len(hd)} |-> Cell(vals, last(h))]

\* for line in lines[1:]: ... rows.append(row)
ParseRows(hd, ls) == [k \in 1..(Len(ls) - 1) |-> ParseRow(hd, ls[k + 1])]

\* row.get(col): the default is lost and str(None) is serialised
GetNone(row, col, default) == IF col \in DOMAIN row THEN row[col] ELSE "None"

\* row.get(col, default)
Get(row, col, default) == IF col \in DOMAIN row THEN row[col] ELSE default

(***************************************************************************)
(* rows.sort(key=...) (line 39): the keys of all rows are computed first   *)
(* (an exception of the key function leaves the list as it was), then the  *)
(* list is sorted by key, ascending and stable.                            *)
(***************************************************************************)
SortKey(row) == parse_date_key(Get(row, "time", ""))

\* Python's < on 3-tuples of integers
TupleLess(a, b) ==
    \/ a[1] < b[1]
    \/ a[1] = b[1] /\ a[2] < b[2]
    \/ a[1] = b[1] /\ a[2] = b[2] /\ a[3] < b[3]

\* r goes in front of the elements that are equal to it
RECURSIVE InsertBeforeEqual(_, _)
InsertBeforeEqual(sorted, r) ==
    IF Len(sorted) = 0 THEN <<r>>
    ELSE IF ~TupleLess(SortKey(sorted[Len(sorted)]).val, SortKey(r).val)
         THEN InsertBeforeEqual(SubSeq(sorted, 1, Len(sorted) - 1), r)
                  \o <<sorted[Len(sorted)]>>
         ELSE sorted \o <<r>>

\* r goes behind every element that is not greater than it
RECURSIVE InsertStable(_, _)
InsertStable(sorted, r) ==
    IF Len(sorted) = 0 THEN <<r>>
    ELSE IF TupleLess(SortKey(r).val, SortKey(sorted[Len(sorted)]).val)
         THEN InsertStable(SubSeq(sorted, 1, Len(sorted) - 1), r)
                  \o <<sorted[Len(sorted)]>>
         ELSE sorted \o <<r>>

RECURSIVE SortedByKey(_)
SortedByKey(rs) ==
    IF Len(rs) = 0 THEN <<>>
    ELSE InsertStable(SortedByKey(SubSeq(rs, 1, Len(rs) - 1)), rs[Len(rs)])

\* the sorted list is thrown away and the rows stay in file order
SortRowsDiscarded(rs) ==
    IF \E i \in 1..Len(rs) : Raised(SortKey(rs[i]))
    THEN Raise("ValueError", 39)
    ELSE Ok(rs)

SortRows(rs) ==
    IF \E i \in 1..Len(rs) : Raised(SortKey(rs[i]))
    THEN Raise("ValueError", 39)
    ELSE Ok(SortedByKey(rs))

(***************************************************************************)
(* The anchor row and the next month (lines 41-52).                        *)
(***************************************************************************)
\* an empty list falls back to a default date
LastTimeOrDefault(rs) ==
    IF Len(rs) = 0 THEN Ok("01/01/1970")
    ELSE IF "time" \notin DOMAIN rs[Len(rs)] THEN Raise("KeyError", 41)
    ELSE Ok(Strip(rs[Len(rs)]["time"]))

\* rows[-1]['time'].strip()
LastTime(rs) ==
    IF Len(rs) = 0 THEN Raise("IndexError", 41)
    ELSE IF "time" \notin DOMAIN rs[Len(rs)] THEN Raise("KeyError", 41)
    ELSE Ok(Strip(rs[Len(rs)]["time"]))

\* lp = last_time.split('/'); int(lp[1]); int(lp[2])
LastMonthYear(lt) ==
    LET lp == Split(lt, "/")
    IN  IF Len(lp) < 2 THEN Raise("IndexError", 43)
        ELSE IF ~IntOk(lp[2]) THEN Raise("ValueError", 43)
        ELSE IF Len(lp) < 3 THEN Raise("IndexError", 44)
        ELSE IF ~IntOk(lp[3]) THEN Raise("ValueError", 44)
        ELSE Ok(<<IntVal(lp[2]), IntVal(lp[3])>>)

\* the wrap to January without the carry into the year
NextMonthNoCarry(lm, ly) ==
    IF lm + 1 > 12 THEN <<1, ly>> ELSE <<lm + 1, ly>>

\* lines 46-50: <<next_mo, next_yr>>
NextMonthYear(lm, ly) ==
    IF lm + 1 > 12 THEN <<1, ly + 1>> ELSE <<lm + 1, ly>>

\* every fourth year a leap year
isleapJulian(year) == year % 4 = 0

\* calendar.isleap
isleap(year) == year % 4 = 0 /\ (year % 100 # 0 \/ year % 400 = 0)

\* calendar.mdays[1:]
mdays == <<31, 28, 31, 30, 31, 30, 31, 31, 30, 31, 30, 31>>

\* calendar.monthrange(year, month)[1]
monthrange(year, month) ==
    IF ~(1 <= month /\ month <= 12) THEN Raise("IllegalMonthError", 52)
    ELSE Ok(mdays[month] + (IF month = 2 /\ isleap(year) THEN 1 ELSE 0))

(***************************************************************************)
(* The canonical string (lines 54-57).                                     *)
(***************************************************************************)
CanonRow(row) ==
    Join([j \in 1..Len(HASH_COLUMNS) |-> Get(row, HASH_COLUMNS[j], "")], ",")

\* only the anchor row is serialised
FullStringLastRow(rs) == IF Len(rs) = 0 THEN "" ELSE CanonRow(rs[Len(rs)])

\* every row is followed by the row separator, the last one too
FullStringTrailingSep(rs) ==
    Join([i \in 1..Len(rs) |-> CanonRow(rs[i]) \o "|"], "")

FullString(rs) == Join([i \in 1..Len(rs) |-> CanonRow(rs[i])], "|")

(***************************************************************************)
(* hashlib.sha256(...).hexdigest() is a library function, kept here as a   *)
(* fixed deterministic function from strings to 64 lowercase hex digits    *)
(* whose value is not SHA-256's.  Unsigned 32-bit values are kept as two   *)
(* 16-bit limbs <<hi, lo>> (hi * 65536 + lo).                              *)
(***************************************************************************)
HexDigits == "0123456789abcdef"
Alphabet == "0123456789/,|- +.:ABCDEFabcdefxyz_"

CodeOf == [c \in {Ch(Alphabet, i) : i \in 1..Len(Alphabet)} |-> Find(Alphabet, c, 1)]
Code(c) == IF c \in DOMAIN CodeOf THEN CodeOf[c] ELSE 0

\* a position-weighted sum of the characters s[lo..hi], by halves
RECURSIVE Mix(_, _, _)
Mix(s, lo, hi) ==
    IF lo > hi THEN 0
    ELSE IF lo = hi THEN ((Code(Ch(s, lo)) + 1) * ((lo * lo + 3 * lo + 17) % 8191)) % 65521
    ELSE LET mid == (lo + hi) \div 2
         IN  (Mix(s, lo, mid) + Mix(s, mid + 1, hi)) % 65521

Hex4(w) ==
    Ch(HexDigits, (w \div 4096) + 1) \o Ch(HexDigits, ((w \div 256) % 16) + 1)
        \o Ch(HexDigits, ((w \div 16) % 16) + 1) \o Ch(HexDigits, (w % 16) + 1)

sha256_hexdigest(s) ==
    LET a == (Mix(s, 1, Len(s)) + 31 * Len(s)) % 65521
        b == (a * 251 + 7) % 65521
        word(k) == IF k % 2 = 1 THEN (a * (2 * k + 1) + 977 * k) % 65536
                                ELSE (b * (2 * k + 1) + 613 * k) % 65536
    IN  Join([k \in 1..16 |-> Hex4(word(k))], "")

\* int(prefix, 16) of 8 hex digits, as limbs
RECURSIVE HexVal(_)
HexVal(s) ==
    IF Len(s) = 0 THEN 0
    ELSE 16 * HexVal(SubSeq(s, 1, Len(s) - 1)) + (Find(HexDigits, Ch(s, Len(s)), 1) - 1)

IntOfHex8(prefix) == <<HexVal(SubSeq(prefix, 1, 4)), HexVal(SubSeq(prefix, 5, 8))>>

\* int_val % d
LimbMod(iv, d) == ((iv[1] % d) * (65536 % d) + (iv[2] % d)) % d

\* the day without the "+ 1"
PredictedDayFromZero(int_val, dim) == LimbMod(int_val, dim)

\* line 62
PredictedDay(int_val, dim) == LimbMod(int_val, dim) + 1

\* lines 59-77: the returned dict
Result(rs, lt, nmo, nyr, dim, fs) ==
    LET sha == sha256_hexdigest(fs)
        prefix == SubSeq(sha, 1, 8)
        int_val == IntOfHex8(prefix)
        day == PredictedDay(int_val, dim)
        dd == ZFill(Str(day), 2)
        mm == ZFill(Str(nmo), 2)
    IN  [rows |-> Len(rs),
         last_date |-> lt,
         next_month |-> mm \o "/" \o Str(nyr),
         days_in_month |-> dim,
         sha256 |-> sha,
         prefix |-> prefix,
         int_val |-> int_val,
         predicted_day |-> day,
         result |-> "Best Purchase Day Next Month: " \o dd \o "-" \o mm \o "-" \o Str(nyr)]

(***************************************************************************)
(* compute_best_day, one call c, in four steps.                            *)
(***************************************************************************)
\* a list shared by all calls instead of a local one
RowsOfShared(c) == rows[1]

\* the list `rows` of call c: a local of that call
RowsOf(c) == rows[c]

Fail(c, e) ==
    /\ pc' = [pc EXCEPT ![c] = "error"]
    /\ exc' = [exc EXCEPT ![c] = e]

\* lines 27-37
Load(c) ==
    /\ pc[c] = "load"
    /\ LET ls == ReadLines(csv[c])
           hd == ParseHeader(ls)
       IN  /\ lines' = [lines EXCEPT ![c] = ls]
           /\ header' = [header EXCEPT ![c] = hd]
           /\ rows' = [rows EXCEPT ![c] = ParseRows(hd, ls)]
    /\ pc' = [pc EXCEPT ![c] = "sort"]
    /\ UNCHANGED <<csv, last_time, last_month, last_year, next_mo, next_yr,
                   days_in_mo, full_string, ret, exc, t, key, genVars>>

\* line 39
Sort(c) ==
    /\ pc[c] = "sort"
    /\ LET o == SortRows(RowsOf(c))
       IN  IF Raised(o)
           THEN Fail(c, o) /\ UNCHANGED rows
           ELSE /\ rows' = [rows EXCEPT ![c] = o.val]
                /\ pc' = [pc EXCEPT ![c] = "anchor"]
                /\ UNCHANGED exc
    /\ UNCHANGED <<csv, lines, header, last_time, last_month, last_year, next_mo,
                   next_yr, days_in_mo, full_string, ret, t, key, genVars>>

\* lines 41-52
Anchor(c) ==
    /\ pc[c] = "anchor"
    /\ LET lt == LastTime(RowsOf(c))
       IN  IF Raised(lt)
           THEN /\ Fail(c, lt)
                /\ UNCHANGED <<last_time, last_month, last_year, next_mo, next_yr,
                               days_in_mo>>
           ELSE LET my == LastMonthYear(lt.val)
                IN  /\ last_time' = [last_time EXCEPT ![c] = lt.val]
                    /\ IF Raised(my)
                       THEN /\ Fail(c, my)
                            /\ UNCHANGED <<last_month, last_year, next_mo, next_yr,
                                           days_in_mo>>
                       ELSE LET n == NextMonthYear(my.val[1], my.val[2])
                                d == monthrange(n[2], n[1])
                            IN  /\ last_month' = [last_month EXCEPT ![c] = my.val[1]]
                                /\ last_year' = [last_year EXCEPT ![c] = my.val[2]]
                                /\ next_mo' = [next_mo EXCEPT ![c] = n[1]]
                                /\ next_yr' = [next_yr EXCEPT ![c] = n[2]]
                                /\ IF Raised(d)
                                   THEN Fail(c, d) /\ UNCHANGED days_in_mo
                                   ELSE /\ days_in_mo' = [days_in_mo EXCEPT ![c] = d.val]
                                        /\ pc' = [pc EXCEPT ![c] = "hash"]
                                        /\ UNCHANGED exc
    /\ UNCHANGED <<csv, lines, header, rows, full_string, ret, t, key, genVars>>

\* lines 54-77
Hash(c) ==
    /\ pc[c] = "hash"
    /\ LET fs == FullString(RowsOf(c))
       IN  /\ full_string' = [full_string EXCEPT ![c] = fs]
           /\ ret' = [ret EXCEPT ![c] = Result(RowsOf(c), last_time[c], next_mo[c],
                                               next_yr[c], days_in_mo[c], fs)]
    /\ pc' = [pc EXCEPT ![c] = "done"]
    /\ UNCHANGED <<csv, lines, header, rows, last_time, last_month, last_year,
                   next_mo, next_yr, days_in_mo, exc, t, key, genVars>>

\* a direct call of parse_date_key(t)
ParseDateKey ==
    /\ key = NotCalled
    /\ key' = parse_date_key(t)
    /\ UNCHANGED <<callVars, t, genVars>>

(***************************************************************************)
(* The generator scripts, each run a process of its own with its own       *)
(* module random.                                                          *)
(***************************************************************************)
Scripts == {"generate_all_scenarios", "generate_test_data"}

\* no generator script runs
GenIdle ==
    /\ rng = [s \in Scripts |-> 0]
    /\ gpc = [s \in Scripts |-> "idle"]
    /\ gi = 0
    /\ grows = [s \in Scripts |-> <<>>]
    /\ disk = [path \in {} |-> ""]

(***************************************************************************)
(* Module random is a library, kept here as a fixed generator with a       *)
(* 16-bit state whose numbers are not the Mersenne Twister's: seed(a) sets *)
(* the state, every draw (random, uniform, gauss, choice) steps it once    *)
(* and returns the new state as the number drawn.                          *)
(***************************************************************************)
\* random.seed(a)
Seeded(a) == a % 65537

\* the state after m draws
Advance(s, m) ==
    LET state[j \in 0..m] == IF j = 0 THEN s ELSE (state[j - 1] * 75 + 74) % 65537
    IN  state[m]

\* the number the j-th draw after state s returns
Drawn(s, j) == Advance(s, j)

(***************************************************************************)
(* datetime: dates are <<year, month, day>>.                               *)
(***************************************************************************)
\* the number of days before 1 January of the year
DaysBeforeYear(y) ==
    365 * (y - 1) + ((y - 1) \div 4) - ((y - 1) \div 100) + ((y - 1) \div 400)

RECURSIVE DaysBeforeMonth(_, _)
DaysBeforeMonth(y, m) ==
    IF m = 1 THEN 0 ELSE DaysBeforeMonth(y, m - 1) + monthrange(y, m - 1).val

\* date.toordinal()
toordinal(dt) == DaysBeforeYear(dt[1]) + DaysBeforeMonth(dt[1], dt[2]) + dt[3]

\* date.weekday(): Monday is 0, Sunday is 6
weekday(dt) == (toordinal(dt) + 6) % 7

\* date.isoweekday(): Monday is 1, Sunday is 7
isoweekday(dt) == weekday(dt) + 1

\* the ordinal of the Monday that starts ISO week 1 of the year
Week1Monday(y) ==
    LET firstday == toordinal(<<y, 1, 1>>)
        firstweekday == (firstday + 6) % 7
        monday == firstday - firstweekday
    IN  IF firstweekday > 3 THEN monday + 7 ELSE monday

\* date.isocalendar()[1]
isoweek(dt) ==
    LET today == toordinal(dt)
        y == dt[1]
    IN  IF today < Week1Monday(y)
        THEN ((today - Week1Monday(y - 1)) \div 7) + 1
        ELSE LET week == (today - Week1Monday(y)) \div 7
             IN  IF week >= 52 /\ today >= Week1Monday(y + 1) THEN 1 ELSE week + 1

\* dt + timedelta(days=i)
RECURSIVE AddDays(_, _)
AddDays(dt, i) ==
    IF i = 0 THEN dt
    ELSE IF dt[3] < monthrange(dt[1], dt[2]).val
         THEN AddDays(<<dt[1], dt[2], dt[3] + 1>>, i - 1)
         ELSE IF dt[2] < 12 THEN AddDays(<<dt[1], dt[2] + 1, 1>>, i - 1)
         ELSE AddDays(<<dt[1] + 1, 1, 1>>, i - 1)

\* dt.strftime('%d/%m/%Y')
strftime(dt) ==
    ZFill(Str(dt[3]), 2) \o "/" \o ZFill(Str(dt[2]), 2) \o "/" \o ZFill(Str(dt[1]), 4)

(***************************************************************************)
(* generate_all_scenarios.py                                               *)
(***************************************************************************)
\* Lag7 is listed before Lag1
COLUMNSLagsSwapped ==
    [j \in 1..39 |-> IF j = 26 THEN HASH_COLUMNS[27]
                     ELSE IF j = 27 THEN HASH_COLUMNS[26] ELSE HASH_COLUMNS[j]]

COLUMNS == <<
    "time", "year", "month", "week_of_year", "day_of_week",
    "is_market_open", "is_flood_crisis", "is_lockdown",
    "Avg.Price (Rs./Kg)", "MaxPrice (Rs./Kg)", "Daily_Spread",
    "Total Qty Arrived (Kgs)", "Qty Sold (Kgs)", "Smooth_Qty_Arrived", "Auctioneer",
    "temperature_2m_mean (°C)", "temperature_2m_max (°C)", "temperature_2m_min (°C)", "Temp_Diff",
    "precipitation_sum (mm)", "relative_humidity_2m_mean (%)",
    "soil_moisture_0_to_7cm_mean (m³/m³)", "et0_fao_evapotranspiration (mm)",
    "Precip_7D", "RH_7D",
    "Lag1", "Lag7", "Lag14", "Lag30", "Lag_MaxPrice_1", "Lag_Spread_1",
    "MA7", "MA14", "MA30",
    "Lag_Qty_Sold_1", "Lag_Total_Qty_Arrived_1",
    "Precip_30D_Sum", "Precip_Lag_60", "Soil_Moisture_Lag_14" >>

\* the entries of SCENARIOS the rows depend on; flood_days is the pair of the
\* first and last flooded day, <<1, 0>> where the config has none
SCENARIOS == <<
    [filename |-> "test-feb-mar-2026.csv", start_date |-> <<2026, 2, 8>>,
     base_price |-> 2360, pattern |-> "linear", supply_base |-> 13000,
     supply_trend |-> 50, flood_days |-> <<1, 0>>],
    [filename |-> "test-mar-apr-2026.csv", start_date |-> <<2026, 3, 9>>,
     base_price |-> 2420, pattern |-> "choppy", supply_base |-> 12000,
     supply_trend |-> 0, flood_days |-> <<1, 0>>],
    [filename |-> "test-apr-may-2026.csv", start_date |-> <<2026, 4, 8>>,
     base_price |-> 2550, pattern |-> "linear", supply_base |-> 18000,
     supply_trend |-> 100, flood_days |-> <<1, 0>>],
    [filename |-> "test-may-jun-2026.csv", start_date |-> <<2026, 5, 8>>,
     base_price |-> 2330, pattern |-> "accelerating", supply_base |-> 8000,
     supply_trend |-> -60, flood_days |-> <<12, 18>>],
    [filename |-> "test-jun-jul-2026.csv", start_date |-> <<2026, 6, 7>>,
     base_price |-> 2620, pattern |-> "bubble", supply_base |-> 9000,
     supply_trend |-> 0, flood_days |-> <<1, 0>>],
    [filename |-> "test-jul-aug-2026.csv", start_date |-> <<2026, 7, 7>>,
     base_price |-> 2490, pattern |-> "recovery", supply_base |-> 13000,
     supply_trend |-> 30, flood_days |-> <<1, 0>>] >>

\* the number of days generated: 30 in both scripts (n_days, range(30))
NDays == 2

\* sum(seq[lo..hi])
RECURSIVE SumSeq(_, _, _)
SumSeq(seq, lo, hi) == IF lo > hi THEN 0 ELSE seq[lo] + SumSeq(seq, lo + 1, hi)

Max(a, b) == IF a >= b THEN a ELSE b

(***************************************************************************)
(* generate_scenario(config), called with module random in state s: the   *)
(* rows (each a dict: its <<key, value>> pairs in insertion order) and the *)
(* state it leaves module random in.  The draws are made in the script's   *)
(* order; the float arithmetic on them is replaced by integer arithmetic.  *)
(* Days and rows are counted from 0 as in the script.                      *)
(***************************************************************************)
generate_scenario(config, s) ==
    LET n == NDays
        date(i) == AddDays(config.start_date, i)
        open(i) == weekday(date(i)) # 6
        \* generate_prices: choppy draws a choice before each gauss
        perPrice == IF config.pattern = "choppy" THEN 2 ELSE 1
        prices == [k \in 1..n |-> config.base_price + (Drawn(s, perPrice * k) % 61) - 30]
        \* generate_weather: 8 draws a day
        wAt(i, k) == Drawn(s, perPrice * n + 8 * i + k)
        weather == [k \in 1..n |->
            LET i == k - 1
                temp_mean == 20 + (wAt(i, 1) % 10)
                temp_max == temp_mean + 2 + (wAt(i, 2) % 4)
                temp_min == temp_mean - 2 - (wAt(i, 3) % 3)
            IN  [temp_mean |-> temp_mean, temp_max |-> temp_max, temp_min |-> temp_min,
                 temp_diff |-> temp_max - temp_min,
                 precip |-> IF wAt(i, 4) % 2 = 0 THEN wAt(i, 5) % 50 ELSE wAt(i, 5) % 3,
                 humidity |-> 40 + (wAt(i, 6) % 59),
                 soil |-> 18 + (wAt(i, 7) % 38),
                 et0 |-> 5 + (wAt(i, 8) % 20)]]
        \* the draws of the row loop
        rowDraws(i) ==
            1 + (IF open(i) THEN 3 ELSE 0) + (IF i >= 1 THEN 2 ELSE 0)
              + (IF i >= 1 /\ open(i - 1) THEN 2 ELSE 0) + 2
        rowStart(i) == perPrice * n + 8 * n + SumSeq([k \in 1..i |-> rowDraws(k - 1)], 1, i)
        spreadOf(d) == 100 + (d % 300)
        row(i) ==
            LET dt == date(i)
                avg_price == prices[i + 1]
                w == weather[i + 1]
                o1 == rowStart(i) + 1
                spread == spreadOf(Drawn(s, o1))
                max_price == avg_price + spread
                qty_arrived == IF open(i)
                               THEN Max(0, config.supply_base + config.supply_trend * i
                                               + (Drawn(s, o1 + 1) % 1001) - 500)
                               ELSE 0
                qty_sold == IF open(i)
                            THEN (qty_arrived * (78 + (Drawn(s, o1 + 2) % 19))) \div 100
                            ELSE 0
                o2 == IF open(i) THEN o1 + 2 ELSE o1
                auctioneer == IF open(i) THEN <<1, 2, 2, 3>>[(Drawn(s, o2 + 1) % 4) + 1] ELSE 0
                o3 == IF open(i) THEN o2 + 1 ELSE o2
                lag_max_1 == IF i >= 1 THEN prices[i] + spreadOf(Drawn(s, o3 + 1)) ELSE max_price
                lag_spread_1 == IF i >= 1 THEN spreadOf(Drawn(s, o3 + 2)) ELSE spread
                o4 == IF i >= 1 THEN o3 + 2 ELSE o3
                lagged == i >= 1 /\ open(i - 1)
                lag_qty_arrived ==
                    IF i = 0 THEN qty_arrived
                    ELSE IF ~open(i - 1) THEN 0
                    ELSE Max(0, config.supply_base + config.supply_trend * (i - 1)
                                    + (Drawn(s, o4 + 1) % 301) - 150)
                lag_qty_sold ==
                    IF i = 0 THEN qty_sold
                    ELSE IF ~open(i - 1) THEN 0
                    ELSE (lag_qty_arrived * (80 + (Drawn(s, o4 + 2) % 16))) \div 100
                o5 == IF lagged THEN o4 + 2 ELSE o4
                ma(window) ==
                    LET start == Max(0, i - window + 1)
                    IN  SumSeq(prices, start + 1, i + 1) \div (i + 1 - start)
                from7 == Max(0, i - 6)
                precips == [k \in 1..n |-> weather[k].precip]
                humidities == [k \in 1..n |-> weather[k].humidity]
            IN  << <<"time", strftime(dt)>>,
                   <<"year", dt[1]>>,
                   <<"month", dt[2]>>,
                   <<"week_of_year", isoweek(dt)>>,
                   <<"day_of_week", isoweekday(dt) % 7>>,
                   <<"is_market_open", IF open(i) THEN 1 ELSE 0>>,
                   <<"is_flood_crisis",
                     IF config.flood_days[1] <= i /\ i <= config.flood_days[2] THEN 1 ELSE 0>>,
                   <<"is_lockdown", 0>>,
                   <<"Avg.Price (Rs./Kg)", avg_price>>,
                   <<"MaxPrice (Rs./Kg)", max_price>>,
                   <<"Daily_Spread", spread>>,
                   <<"Total Qty Arrived (Kgs)", qty_arrived>>,
                   <<"Qty Sold (Kgs)", qty_sold>>,
                   <<"Smooth_Qty_Arrived", config.supply_base + ((config.supply_trend * i) \div 2)>>,
                   <<"Auctioneer", auctioneer>>,
                   <<"temperature_2m_mean (°C)", w.temp_mean>>,
                   <<"temperature_2m_max (°C)", w.temp_max>>,
                   <<"temperature_2m_min (°C)", w.temp_min>>,
                   <<"Temp_Diff", w.temp_diff>>,
                   <<"precipitation_sum (mm)", w.precip>>,
                   <<"relative_humidity_2m_mean (%)", w.humidity>>,
                   <<"soil_moisture_0_to_7cm_mean (m³/m³)", w.soil>>,
                   <<"et0_fao_evapotranspiration (mm)", w.et0>>,
                   <<"Precip_7D", SumSeq(precips, from7 + 1, i + 1)>>,
                   <<"RH_7D", SumSeq(humidities, from7 + 1, i + 1) \div (i + 1 - from7)>>,
                   <<"Lag1", IF i >= 1 THEN prices[i] ELSE avg_price>>,
                   <<"Lag7", IF i >= 7 THEN prices[i - 6] ELSE prices[1]>>,
                   <<"Lag14", IF i >= 14 THEN prices[i - 13] ELSE prices[1]>>,
                   <<"Lag30", prices[1]>>,
                   <<"Lag_MaxPrice_1", lag_max_1>>,
                   <<"Lag_Spread_1", lag_spread_1>>,
                   <<"MA7", ma(7)>>,
                   <<"MA14", ma(14)>>,
                   <<"MA30", ma(30)>>,
                   <<"Lag_Qty_Sold_1", lag_qty_sold>>,
                   <<"Lag_Total_Qty_Arrived_1", lag_qty_arrived>>,
                   <<"Precip_30D_Sum", SumSeq(precips, 1, i + 1)>>,
                   <<"Precip_Lag_60", (w.precip * (3 + (Drawn(s, o5 + 1) % 13))) \div 10>>,
                   <<"Soil_Moisture_Lag_14", w.soil + (Drawn(s, o5 + 2) % 3)>> >>
    IN  [rows |-> [k \in 1..n |-> row(k - 1)],
         rng |-> Advance(s, rowStart(n))]

(***************************************************************************)
(* generate_test_data.py.  The recent history of the script, its floats    *)
(* cut to integers.                                                        *)
(***************************************************************************)
RECENT_PRICES == <<
    2398, 2402, 2379, 2400, 2385, 2370, 2384,
    2398, 2368, 2431, 2428, 2407, 2417, 2431,
    2453, 2435, 2449, 2468, 2463, 2444, 2443,
    2417, 2428, 2407, 2472, 2443, 2462, 2513,
    2515, 2516, 2508, 2522, 2529, 2523 >>

RECENT_MAX_PRICES == <<
    2978, 3002, 3038, 3369, 3413, 3443, 3076, 3502, 3212, 3002,
    3326, 3369, 3413, 3443, 3076, 2978, 2956 >>

RECENT_QTY_ARRIVED == <<
    105862, 105056, 187948, 83919, 181497, 139597, 0,
    131139, 182402, 169925, 135016, 118588 >>

RECENT_QTY_SOLD == <<
    92564, 105056, 184189, 83200, 179976, 138698, 0,
    129421, 180783, 168797, 130826, 118171 >>

\* clamp(val, lo, hi)
clamp(val, lo, hi) == Max(lo, IF hi <= val THEN hi ELSE val)

\* seq[-k]
FromEnd(seq, k) == seq[Len(seq) - k + 1]

\* sum(seq[-k:])
SumLast(seq, k) == SumSeq(seq, Max(1, Len(seq) - k + 1), Len(seq))

(***************************************************************************)
(* generate_data(), called with module random in state s; rows and state   *)
(* as for generate_scenario.                                               *)
(***************************************************************************)
generate_data(s) ==
    LET n == NDays
        date(i) == AddDays(<<2026, 2, 8>>, i)
        open(i) == weekday(date(i)) < 5
        dayDraws(i) == 9 + (IF open(i) THEN 3 ELSE 0)
        dayStart(i) == SumSeq([k \in 1..i |-> dayDraws(k - 1)], 1, i)
        at(i, k) == Drawn(s, dayStart(i) + k)
        \* current_price after day i
        current[i \in 0..(n - 1)] ==
            LET before == IF i = 0 THEN 2523 ELSE current[i - 1]
            IN  IF open(i) THEN clamp(before + (at(i, 8) % 91) - 45, 2200, 2800) ELSE before
        spreadAt(i) == IF open(i) THEN 9 ELSE 8
        max_price(i) == current[i] + ((current[i] * (15 + (at(i, spreadAt(i)) % 26))) \div 100)
        qty_arrived(i) == IF open(i) THEN 80000 + at(i, 10) ELSE 0
        qty_sold(i) == IF open(i) THEN (qty_arrived(i) * (92 + (at(i, 11) % 8))) \div 100 ELSE 0
        precip(i) == at(i, 4) % 16
        \* the histories once day i is appended
        price_history(i) == RECENT_PRICES \o [k \in 1..(i + 1) |-> current[k - 1]]
        max_price_history(i) == RECENT_MAX_PRICES \o [k \in 1..(i + 1) |-> max_price(k - 1)]
        qty_arrived_history(i) == RECENT_QTY_ARRIVED \o [k \in 1..(i + 1) |-> qty_arrived(k - 1)]
        qty_sold_history(i) == RECENT_QTY_SOLD \o [k \in 1..(i + 1) |-> qty_sold(k - 1)]
        precip_history(i) == [k \in 1..60 |-> 0] \o [k \in 1..(i + 1) |-> precip(k - 1)]
        row(i) ==
            LET dt == date(i)
                temp_max == 30 + (at(i, 2) % 5)
                temp_min == 18 + (at(i, 3) % 5)
                soil_moisture == 20 + (at(i, 6) % 11)
                ph == price_history(i)
                mh == max_price_history(i)
                before == IF i = 0 THEN RECENT_QTY_ARRIVED ELSE qty_arrived_history(i - 1)
            IN  << <<"time", strftime(dt)>>,
                   <<"year", dt[1]>>,
                   <<"month", dt[2]>>,
                   <<"week_of_year", isoweek(dt)>>,
                   <<"day_of_week", weekday(dt)>>,
                   <<"is_market_open", IF open(i) THEN 1 ELSE 0>>,
                   <<"is_flood_crisis", 0>>,
                   <<"is_lockdown", 0>>,
                   <<"Avg.Price (Rs./Kg)", current[i]>>,
                   <<"MaxPrice (Rs./Kg)", max_price(i)>>,
                   <<"Daily_Spread", max_price(i) - current[i]>>,
                   <<"Total Qty Arrived (Kgs)", qty_arrived(i)>>,
                   <<"Qty Sold (Kgs)", qty_sold(i)>>,
                   <<"Smooth_Qty_Arrived", (SumLast(before, 6) + qty_arrived(i)) \div 7>>,
                   <<"Auctioneer", IF open(i) THEN 2 ELSE 0>>,
                   <<"temperature_2m_mean (°C)", 24 + (at(i, 1) % 4)>>,
                   <<"temperature_2m_max (°C)", temp_max>>,
                   <<"temperature_2m_min (°C)", temp_min>>,
                   <<"Temp_Diff", temp_max - temp_min>>,
                   <<"precipitation_sum (mm)", precip(i)>>,
                   <<"relative_humidity_2m_mean (%)", 55 + (at(i, 5) % 21)>>,
                   <<"soil_moisture_0_to_7cm_mean (m³/m³)", soil_moisture>>,
                   <<"et0_fao_evapotranspiration (mm)", 16 + (at(i, 7) % 7)>>,
                   <<"Precip_7D", SumLast(precip_history(i), 7)>>,
                   <<"RH_7D", 55 + (at(i, 5) % 21)>>,
                   <<"Lag1", FromEnd(ph, 2)>>,
                   <<"Lag7", FromEnd(ph, 8)>>,
                   <<"Lag14", FromEnd(ph, 15)>>,
                   <<"Lag30", FromEnd(ph, 31)>>,
                   <<"Lag_MaxPrice_1", FromEnd(mh, 2)>>,
                   <<"Lag_Spread_1", FromEnd(mh, 2) - FromEnd(ph, 2)>>,
                   <<"MA7", SumLast(ph, 7) \div 7>>,
                   <<"MA14", SumLast(ph, 14) \div 14>>,
                   <<"MA30", SumLast(ph, 30) \div 30>>,
                   <<"Lag_Qty_Sold_1", FromEnd(qty_sold_history(i), 2)>>,
                   <<"Lag_Total_Qty_Arrived_1", FromEnd(qty_arrived_history(i), 2)>>,
                   <<"Precip_30D_Sum", SumLast(precip_history(i), 30)>>,
                   <<"Precip_Lag_60",
                     SumSeq(precip_history(i), i + 2, i + 31)>>,
                   <<"Soil_Moisture_Lag_14", soil_moisture + (at(i, dayDraws(i)) % 5) - 2>> >>
    IN  [rows |-> [k \in 1..n |-> row(k - 1)],
         rng |-> Advance(s, dayStart(n))]

(***************************************************************************)
(* csv.DictWriter(f, fieldnames).writeheader() and .writerows(rows) on a   *)
(* file opened with newline='': every line ends with "\r\n"; a key the     *)
(* fieldnames lack raises ValueError, a fieldname the row lacks is written *)
(* as ''.  No name or value of the scripts holds a comma, a quote or a     *)
(* line end, so no field is quoted.                                        *)
(***************************************************************************)
DictKeys(d) == [i \in 1..Len(d) |-> d[i][1]]
DictHas(d, k) == \E i \in 1..Len(d) : d[i][1] = k
DictGet(d, k) == d[CHOOSE i \in 1..Len(d) : d[i][1] = k][2]

\* str(value): time is the one key whose value is a str already
PyStr(k, v) == IF k = "time" THEN v ELSE Str(v)

InSeq(x, seq) == \E i \in 1..Len(seq) : seq[i] = x

CsvLine(fieldnames, d) ==
    Join([j \in 1..Len(fieldnames) |->
              IF DictHas(d, fieldnames[j])
              THEN PyStr(fieldnames[j], DictGet(d, fieldnames[j])) ELSE ""], ",") \o "\r\n"

DictWriter(fieldnames, rs, line) ==
    IF \E i \in 1..Len(rs) : \E j \in 1..Len(rs[i]) : ~InSeq(rs[i][j][1], fieldnames)
    THEN Raise("ValueError", line)
    ELSE Ok(Join(fieldnames, ",") \o "\r\n"
                \o Join([i \in 1..Len(rs) |-> CsvLine(fieldnames, rs[i])], ""))

\* write_csv(rows, filepath) of generate_all_scenarios.py
write_csv(rs) == DictWriter(COLUMNS, rs, 344)

\* the paths, relative to the directory of the scripts
MAIN_TEST == "assets/data/test-upload-feb-mar-2026.csv"
ScenarioPath(config) == "assets/data/test-scenarios/" \o config.filename

\* the file at path now holds text
Written(path, text) == disk' = (path :> text) @@ disk

GenFail(s, e) ==
    /\ gpc' = [gpc EXCEPT ![s] = "error"]
    /\ UNCHANGED disk

(***************************************************************************)
(* generate_all_scenarios.main()                                           *)
(***************************************************************************)
GAS == "generate_all_scenarios"

\* line 470: random.seed(42)
MainSeed ==
    /\ gpc[GAS] = "start"
    /\ rng' = [rng EXCEPT ![GAS] = Seeded(42)]
    /\ gpc' = [gpc EXCEPT ![GAS] = "loop"]
    /\ UNCHANGED <<callVars, t, key, gi, grows, disk>>

\* lines 476-481: one turn of the loop over SCENARIOS
MainScenario ==
    /\ gpc[GAS] = "loop"
    /\ gi < Len(SCENARIOS)
    /\ LET cfg == SCENARIOS[gi + 1]
           g == generate_scenario(cfg, rng[GAS])
           w == write_csv(g.rows)
       IN  /\ grows' = [grows EXCEPT ![GAS] = g.rows]
           /\ rng' = [rng EXCEPT ![GAS] = g.rng]
           /\ IF Raised(w) THEN GenFail(GAS, w)
              ELSE Written(ScenarioPath(cfg), w.val) /\ UNCHANGED gpc
    /\ gi' = gi + 1
    /\ UNCHANGED <<callVars, t, key>>

\* line 485: rows1 = generate_scenario(SCENARIOS[0])
MainRows1 ==
    /\ gpc[GAS] = "loop"
    /\ gi = Len(SCENARIOS)
    /\ LET g == generate_scenario(SCENARIOS[1], rng[GAS])
       IN  /\ grows' = [grows EXCEPT ![GAS] = g.rows]
           /\ rng' = [rng EXCEPT ![GAS] = g.rng]
    /\ gpc' = [gpc EXCEPT ![GAS] = "reseed"]
    /\ UNCHANGED <<callVars, t, key, gi, disk>>

\* line 486: random.seed(42)
MainReseed ==
    /\ gpc[GAS] = "reseed"
    /\ rng' = [rng EXCEPT ![GAS] = Seeded(42)]
    /\ gpc' = [gpc EXCEPT ![GAS] = "write"]
    /\ UNCHANGED <<callVars, t, key, gi, grows, disk>>

\* line 487: write_csv(rows1, main_test)
MainWrite ==
    /\ gpc[GAS] = "write"
    /\ LET w == write_csv(grows[GAS])
       IN  IF Raised(w) THEN GenFail(GAS, w)
           ELSE Written(MAIN_TEST, w.val) /\ gpc' = [gpc EXCEPT ![GAS] = "done"]
    /\ UNCHANGED <<callVars, t, key, rng, gi, grows>>

(***************************************************************************)
(* generate_test_data.py: the seed at import and main()                    *)
(***************************************************************************)
GTD == "generate_test_data"

\* line 18: random.seed(42)
DataSeed ==
    /\ gpc[GTD] = "start"
    /\ rng' = [rng EXCEPT ![GTD] = Seeded(42)]
    /\ gpc' = [gpc EXCEPT ![GTD] = "generate"]
    /\ UNCHANGED <<callVars, t, key, gi, grows, disk>>

\* line 237: rows = generate_data()
DataGenerate ==
    /\ gpc[GTD] = "generate"
    /\ LET g == generate_data(rng[GTD])
       IN  /\ grows' = [grows EXCEPT ![GTD] = g.rows]
           /\ rng' = [rng EXCEPT ![GTD] = g.rng]
    /\ gpc' = [gpc EXCEPT ![GTD] = "write"]
    /\ UNCHANGED <<callVars, t, key, gi, disk>>

\* lines 244-248: fieldnames = list(rows[0].keys()), then the DictWriter
DataWrite ==
    /\ gpc[GTD] = "write"
    /\ LET w == DictWriter(DictKeys(grows[GTD][1]), grows[GTD], 248)
       IN  IF Raised(w) THEN GenFail(GTD, w)
           ELSE Written(MAIN_TEST, w.val) /\ gpc' = [gpc EXCEPT ![GTD] = "done"]
    /\ UNCHANGED <<callVars, t, key, rng, gi, grows>>

(***************************************************************************)
(* Inputs.  A file is a header line followed by data lines.                *)
(***************************************************************************)
MaxRows == 2
MaxParts == 4

SeqsUpTo(S, n) == UNION {[1..k -> S] : k \in 0..n}

Render(hd, ls) == Join(<<hd>> \o ls, "\n")

Headers == {" time , Auctioneer ", "Auctioneer,note"}

DataLines == {
    "08/02/2026,A",        \* next month March 2026
    "09/02/2026,x|y",      \* a value that holds the row separator
    "31/01/2026,B",        \* next month February 2026
    "30/11/2026,A",
    "15/12/2026,A",        \* December: the year rolls over
    "31/01/2028,A",        \* next month February 2028, a leap year
    "01/01/2100,A",        \* next month February 2100, no leap year
    "01/01/2000,A",        \* next month February 2000, a leap year
    "31/01/2027,A",        \* next month February 2027
    "10/02/2026",          \* shorter than the header
    "",                    \* a blank line
    "08/02/26,A",          \* 2-digit year
    "08/13/2026,A",        \* month field 13
    "08/-1/2026,A",        \* month field -1
    "2026-02-08,A",        \* no '/'
    "08/02",               \* two parts
    "xx/02/2026,A",        \* non-numeric day
    "08/xx/26,A" }         \* non-numeric month, 2-digit year

Files == {""} \cup {Render(hd, ls) : hd \in Headers, ls \in SeqsUpTo(DataLines, MaxRows)}

Idle(c) == c = 2

InitCall(files) ==
    /\ csv \in {[c \in Calls |-> IF Idle(c) THEN "" ELSE f] : f \in files}
    /\ lines = [c \in Calls |-> <<>>]
    /\ header = [c \in Calls |-> <<>>]
    /\ rows = [c \in Calls |-> <<>>]
    /\ last_time = [c \in Calls |-> ""]
    /\ last_month = [c \in Calls |-> 0]
    /\ last_year = [c \in Calls |-> 0]
    /\ next_mo = [c \in Calls |-> 0]
    /\ next_yr = [c \in Calls |-> 0]
    /\ days_in_mo = [c \in Calls |-> 0]
    /\ full_string = [c \in Calls |-> ""]
    /\ ret = [c \in Calls |-> NoResult]
    /\ exc = [c \in Calls |-> NoExc]

\* one call of compute_best_day on one file
Init ==
    /\ InitCall(Files)
    /\ pc = [c \in Calls |-> IF Idle(c) THEN "idle" ELSE "load"]
    /\ t = ""
    /\ key = NotCalled
    /\ GenIdle

Step(c) == Load(c) \/ Sort(c) \/ Anchor(c) \/ Hash(c)

Next == \E c \in Calls : Step(c)

Spec == Init /\ [][Next]_vars

(***************************************************************************)
(* Direct calls of parse_date_key on strings of up to MaxParts parts.      *)
(***************************************************************************)
Parts == {"", "8", "08", "13", "2026", "26", "xx", "20x6", " 02 ", "-1"}

TimeStrings == {Join(ps, "/") : ps \in SeqsUpTo(Parts, MaxParts) \ {<<>>}}

InitKey ==
    /\ InitCall({""})
    /\ pc = [c \in Calls |-> "idle"]
    /\ t \in TimeStrings
    /\ key = NotCalled
    /\ GenIdle

NextKey == ParseDateKey

SpecKey == InitKey /\ [][NextKey]_vars

(***************************************************************************)
(* verify_sha256.py, lines 80-92: compute_best_day on a file that exists.  *)
(***************************************************************************)
VerifiedPaths == {ScenarioPath(SCENARIOS[i]) : i \in 1..Len(SCENARIOS)} \cup {MAIN_TEST}

Verify(c) ==
    /\ pc[c] = "idle"
    /\ ~Idle(c)
    /\ \E path \in VerifiedPaths \cap DOMAIN disk :
           csv' = [csv EXCEPT ![c] = disk[path]]
    /\ pc' = [pc EXCEPT ![c] = "load"]
    /\ UNCHANGED <<lines, header, rows, last_time, last_month, last_year, next_mo,
                   next_yr, days_in_mo, full_string, ret, exc, t, key, genVars>>

\* the states module random may be in before it is seeded
Entropy == {1, 2}

\* both generator scripts are started, the verifier has not yet picked a file
InitGen ==
    /\ InitCall({""})
    /\ pc = [c \in Calls |-> "idle"]
    /\ t = ""
    /\ key = NotCalled
    /\ rng \in [Scripts -> Entropy]
    /\ gpc = [s \in Scripts |-> "start"]
    /\ gi = 0
    /\ grows = [s \in Scripts |-> <<>>]
    /\ disk = [path \in {} |-> ""]

NextGen ==
    \/ MainSeed \/ MainScenario \/ MainRows1 \/ MainReseed \/ MainWrite
    \/ DataSeed \/ DataGenerate \/ DataWrite
    \/ \E c \in Calls : Verify(c) \/ Step(c)

SpecGen == InitGen /\ [][NextGen]_vars

(***************************************************************************)
(* Two calls of compute_best_day, their steps interleaved, on two files:   *)
(* the second file is the first one, or the first one with its data lines  *)
(* in another order, or with one data line replaced.                       *)
(***************************************************************************)
PairHeaders == {"time,Auctioneer", "time,note"}

PairLines == {
    "08/02/2026,A",
    "08/02/2026,B",        \* the same date as the line above
    "08/02/2026, A",       \* the first line with a blank before the A
    "09/02/2026,A" }

Reordered(ls) == {[i \in 1..Len(ls) |-> ls[p[i]]] : p \in Permutations(1..Len(ls))}

Replaced(ls) == {[ls EXCEPT ![i] = l] : i \in 1..Len(ls), l \in PairLines}

InitPair ==
    /\ csv \in UNION {
           {[c \in Calls |-> IF c = 1 THEN Render(hd, ls) ELSE Render(hd, ms)] :
               ms \in Reordered(ls) \cup Replaced(ls)} :
           hd \in PairHeaders, ls \in SeqsUpTo(PairLines, MaxRows)}
    /\ lines = [c \in Calls |-> <<>>]
    /\ header = [c \in Calls |-> <<>>]
    /\ rows = [c \in Calls |-> <<>>]
    /\ last_time = [c \in Calls |-> ""]
    /\ last_month = [c \in Calls |-> 0]
    /\ last_year = [c \in Calls |-> 0]
    /\ next_mo = [c \in Calls |-> 0]
    /\ next_yr = [c \in Calls |-> 0]
    /\ days_in_mo = [c \in Calls |-> 0]
    /\ full_string = [c \in Calls |-> ""]
    /\ ret = [c \in Calls |-> NoResult]
    /\ exc = [c \in Calls |-> NoExc]
    /\ pc = [c \in Calls |-> "load"]
    /\ t = ""
    /\ key = NotCalled
    /\ GenIdle

SpecPair == InitPair /\ [][Next]_vars

(***************************************************************************)
(* Two calls on two files that hold the same table, the second with its    *)
(* columns in another order: the header and every data line permuted the   *)
(* same way.  A table is a header (a sequence of names) and data rows with *)
(* one cell per header column.                                             *)
(***************************************************************************)
TableHeaders == {
    <<"time", "Auctioneer", "note">>,
    <<"Auctioneer", " time ">>,
    <<"time", "time">> }                   \* the name time twice

\* the cells a column of that name may hold
CellsFor(name) ==
    IF Strip(name) = "time" THEN {"08/02/2026", "15/12/2026"}
    ELSE IF Strip(name) = "Auctioneer" THEN {"A", " B "}
    ELSE {"", "2026"}

AllCells == UNION {CellsFor(name) : name \in {"time", "Auctioneer", "note"}}

TableRows(hd) ==
    {r \in [1..Len(hd) -> AllCells] : \A j \in 1..Len(hd) : r[j] \in CellsFor(hd[j])}

RenderTable(hd, rs) ==
    Render(Join(hd, ","), [i \in 1..Len(rs) |-> Join(rs[i], ",")])

\* the cells of one line in the column order p
PermuteCols(cells, p) == [j \in 1..Len(cells) |-> cells[p[j]]]

ColumnOrders(hd, rs) ==
    {RenderTable(PermuteCols(hd, p), [i \in 1..Len(rs) |-> PermuteCols(rs[i], p)]) :
        p \in Permutations(1..Len(hd))}

\* both calls at their first line, every local still unset
InitTwo(pairs) ==
    /\ csv \in pairs
    /\ lines = [c \in Calls |-> <<>>]
    /\ header = [c \in Calls |-> <<>>]
    /\ rows = [c \in Calls |-> <<>>]
    /\ last_time = [c \in Calls |-> ""]
    /\ last_month = [c \in Calls |-> 0]
    /\ last_year = [c \in Calls |-> 0]
    /\ next_mo = [c \in Calls |-> 0]
    /\ next_yr = [c \in Calls |-> 0]
    /\ days_in_mo = [c \in Calls |-> 0]
    /\ full_string = [c \in Calls |-> ""]
    /\ ret = [c \in Calls |-> NoResult]
    /\ exc = [c \in Calls |-> NoExc]
    /\ pc = [c \in Calls |-> "load"]
    /\ t = ""
    /\ key = NotCalled
    /\ GenIdle

\* the pairs of files of the tables with the header hd
ColumnPairs(hd) ==
    UNION {
        {[c \in Calls |-> IF c = 1 THEN RenderTable(hd, rs) ELSE f] :
            f \in ColumnOrders(hd, rs)} :
        rs \in SeqsUpTo(TableRows(hd), MaxRows) \ {<<>>}}

InitColumns == InitTwo(UNION {ColumnPairs(hd) : hd \in TableHeaders})

SpecColumns == InitColumns /\ [][Next]_vars

(***************************************************************************)
(* Two calls on files whose cells may hold the row separator '|'.          *)
(***************************************************************************)
SeparatorLines == {
    "08/02/26,x|a",        \* the separator in the last column
    "08/02/26,x",
    "a|08/02/26,x" }       \* the separator in the time column

SeparatorFiles ==
    {Render("time,Soil_Moisture_Lag_14", ls) :
        ls \in SeqsUpTo(SeparatorLines, MaxRows) \ {<<>>}}

InitSeparator == InitTwo([Calls -> SeparatorFiles])

SpecSeparator == InitSeparator /\ [][Next]_vars

(***************************************************************************)
(* Properties.                                                             *)
(***************************************************************************)
Terminal(c) == pc[c] \in {"done", "error"}

\* the time cell of the anchor row (the last row once the rows are sorted)
AnchorRow(c) == rows[c][Len(rows[c])]

\* C1. Determinism: two calls on the same file text, their steps interleaved in
\* any way, end the same way: the same returned dict in every field (sha256,
\* prefix, int_val, predicted_day, result, ...) or the same exception.
C1_Determinism ==
    (Terminal(1) /\ Terminal(2) /\ csv[1] = csv[2]) =>
        /\ pc[1] = pc[2]
        /\ ret[1] = ret[2]
        /\ exc[1] = exc[2]
        /\ full_string[1] = full_string[2]

C1_Witness ==
    /\ pc[1] = "done" /\ pc[2] = "done"
    /\ csv[1] = csv[2]
    /\ Len(rows[1]) >= 2
    /\ ret[1].sha256 = ret[2].sha256
    /\ ret[1].predicted_day = ret[2].predicted_day

\* C2. Range bound: a returned predicted_day lies in 1..days_in_month, it is
\* (int_val mod days_in_month) + 1, and int_val is the value of the first 8
\* hex digits of the digest, so 0 <= int_val < 2^32 (two limbs below 2^16).
C2_RangeBound ==
    \A c \in Calls : pc[c] = "done" =>
        LET r == ret[c]
        IN  /\ 1 <= r.predicted_day /\ r.predicted_day <= r.days_in_month
            /\ r.days_in_month = days_in_mo[c]
            /\ r.predicted_day = LimbMod(r.int_val, r.days_in_month) + 1
            /\ Len(r.sha256) = 64
            /\ r.prefix = SubSeq(r.sha256, 1, 8)
            /\ r.int_val = IntOfHex8(r.prefix)
            /\ r.int_val[1] \in 0..65535 /\ r.int_val[2] \in 0..65535

\* the last day of the month is selected
C2_Witness ==
    /\ pc[1] = "done"
    /\ ret[1].predicted_day = ret[1].days_in_month

\* the month and year fields of a DD/MM/YYYY text
MonthField(tm) == IntVal(Split(tm, "/")[2])
YearField(tm) == IntVal(Split(tm, "/")[3])

\* C3. Month rollover: when the anchor row's month is 12 the next month is 1
\* of the next year; for any other month m (1..11) it is m + 1 of the same
\* year.
C3_MonthRollover ==
    \A c \in Calls : (pc[c] = "done" /\ MonthField(AnchorRow(c)["time"]) \in 1..12) =>
        LET m == MonthField(AnchorRow(c)["time"])
            y == YearField(AnchorRow(c)["time"])
        IN  IF m = 12
            THEN next_mo[c] = 1 /\ next_yr[c] = y + 1
            ELSE next_mo[c] = m + 1 /\ next_yr[c] = y

C3_Witness ==
    /\ pc[1] = "done"
    /\ MonthField(AnchorRow(1)["time"]) = 12
    /\ next_mo[1] = 1
    /\ next_yr[1] = 2027

\* the Gregorian calendar, written out
GregorianDays(year, month) ==
    CASE month \in {4, 6, 9, 11} -> 30
      [] month = 2 ->
            IF (year % 4 = 0 /\ year % 100 # 0) \/ year % 400 = 0 THEN 29 ELSE 28
      [] OTHER -> 31

\* C4. days_in_month of a result is the Gregorian number of days of
\* (next year, next month): February has 29 days in leap years and 28 otherwise.
C4_DaysInMonth ==
    \A c \in Calls : pc[c] = "done" =>
        /\ next_mo[c] \in 1..12
        /\ ret[c].days_in_month = GregorianDays(next_yr[c], next_mo[c])
        /\ ret[c].next_month = ZFill(Str(next_mo[c]), 2) \o "/" \o Str(next_yr[c])

\* February 2028 has 29 days
C4_Witness ==
    /\ pc[1] = "done"
    /\ next_mo[1] = 2 /\ next_yr[1] = 2028
    /\ ret[1].days_in_month = 29

\* b holds the elements of a in some order
IsPerm(a, b) ==
    /\ Len(a) = Len(b)
    /\ \E p \in Permutations(1..Len(a)) : \A i \in 1..Len(a) : b[i] = a[p[i]]

\* the two files have the same header line and the same data lines, in any order
RowsPermuted == lines[1][1] = lines[2][1] /\ IsPerm(Tail(lines[1]), Tail(lines[2]))

\* no key raises and no two rows have the same date key
DistinctKeys(rs) ==
    /\ \A i \in 1..Len(rs) : ~Raised(SortKey(rs[i]))
    /\ \A i, j \in 1..Len(rs) : i # j => SortKey(rs[i]).val # SortKey(rs[j]).val

SameOutcome ==
    /\ pc[1] = pc[2]
    /\ ret[1] = ret[2]
    /\ exc[1] = exc[2]
    /\ full_string[1] = full_string[2]

\* C5 as claimed. File-order insensitivity: two files with the same data lines
\* in different orders give the same canonical string and the same result.
C5_AnyOrder ==
    (Terminal(1) /\ Terminal(2) /\ RowsPermuted) => SameOutcome

\* C5 as amended. When no two rows have the same date key, two files with the
\* same data lines in different orders give the same canonical string and the
\* same result.
C5_OrderOfDistinctDates ==
    (Terminal(1) /\ Terminal(2) /\ RowsPermuted /\ DistinctKeys(rows[1])) => SameOutcome

C5_Witness ==
    /\ pc[1] = "done" /\ pc[2] = "done"
    /\ RowsPermuted
    /\ lines[1] # lines[2]
    /\ DistinctKeys(rows[1])
    /\ ret[1] = ret[2]

\* the data lines (counted from 1) at which the two files differ
ChangedLines == {k \in 1..(Len(lines[1]) - 1) : lines[1][k + 1] # lines[2][k + 1]}
ChangedLine == CHOOSE k \in ChangedLines : TRUE
CellsOf(c) == Split(lines[c][ChangedLine + 1], ",")
ChangedCells == {j \in 1..Len(CellsOf(1)) : CellsOf(1)[j] # CellsOf(2)[j]}
ChangedCell == CHOOSE j \in ChangedCells : TRUE

\* the second file is the first one with one cell of one data line changed
OneCellChanged ==
    /\ Len(lines[1]) = Len(lines[2])
    /\ lines[1][1] = lines[2][1]
    /\ Cardinality(ChangedLines) = 1
    /\ Len(CellsOf(1)) = Len(CellsOf(2))
    /\ Cardinality(ChangedCells) = 1

\* the changed cell is the value of a HASH_COLUMNS column (the last header
\* column of that name) and differs after stripping
RecognizedChange ==
    LET j == ChangedCell
        hd == header[1]
    IN  /\ j <= Len(hd)
        /\ \E k \in 1..Len(HASH_COLUMNS) : HASH_COLUMNS[k] = hd[j]
        /\ \A i \in (j + 1)..Len(hd) : hd[i] # hd[j]
        /\ Strip(CellsOf(1)[j]) # Strip(CellsOf(2)[j])

\* C6 as claimed. Sensitivity: changing one cell of one data row changes the
\* canonical string.
C6_AnyCell ==
    (pc[1] = "done" /\ pc[2] = "done" /\ OneCellChanged) =>
        full_string[1] # full_string[2]

\* C6 as amended. Changing one cell of one data row changes the canonical
\* string when the cell belongs to a HASH_COLUMNS column and its value differs
\* after surrounding blanks are stripped.
C6_RecognizedCell ==
    (pc[1] = "done" /\ pc[2] = "done" /\ OneCellChanged /\ RecognizedChange) =>
        full_string[1] # full_string[2]

\* a changed cell of a row that is not the anchor row
C6_Witness ==
    /\ pc[1] = "done" /\ pc[2] = "done"
    /\ OneCellChanged /\ RecognizedChange
    /\ Len(rows[1]) >= 2
    /\ AnchorRow(1) = AnchorRow(2)
    /\ full_string[1] # full_string[2]

\* the number of occurrences of the character ch in s[lo..hi], by halves
RECURSIVE CountChar(_, _, _, _)
CountChar(s, ch, lo, hi) ==
    IF lo > hi THEN 0
    ELSE IF lo = hi THEN (IF Ch(s, lo) = ch THEN 1 ELSE 0)
    ELSE LET mid == (lo + hi) \div 2
         IN  CountChar(s, ch, lo, mid) + CountChar(s, ch, mid + 1, hi)

\* the 39 fields of a row: its value, or the empty string for a missing column
FieldsOf(row) ==
    [j \in 1..39 |-> IF HASH_COLUMNS[j] \in DOMAIN row THEN row[HASH_COLUMNS[j]] ELSE ""]

\* C7. Missing-column leniency: a cell beyond the end of a data line is read as
\* the empty string, serialising never raises, a column the row lacks is
\* serialised as the empty string, and every row contributes 39 comma-joined
\* fields (38 commas).
C7_MissingColumns ==
    \A c \in Calls :
        /\ exc[c].line \notin 54..57
        /\ pc[c] = "sort" =>
              \A i \in 1..Len(rows[c]) : \A j \in 1..Len(header[c]) :
                  (/\ j > Len(Split(lines[c][i + 1], ","))
                   /\ \A k \in (j + 1)..Len(header[c]) : header[c][k] # header[c][j])
                  => rows[c][i][header[c][j]] = ""
        /\ pc[c] = "done" =>
              /\ full_string[c] =
                     Join([i \in 1..Len(rows[c]) |-> Join(FieldsOf(rows[c][i]), ",")], "|")
              /\ CountChar(full_string[c], ",", 1, Len(full_string[c])) = 38 * Len(rows[c])

\* a result for a file whose header lacks columns and with a short data line
C7_Witness ==
    /\ pc[1] = "done"
    /\ "year" \notin DOMAIN AnchorRow(1)
    /\ \E i \in 2..Len(lines[1]) :
           Len(Split(lines[1][i], ",")) < Len(header[1])
    /\ \E i \in 1..Len(rows[1]) : rows[1][i]["Auctioneer"] = ""

\* what the claim counts as a parse failure: a number of parts other than 3, a
\* year part that is not 4 characters long, or a part that int() rejects
ParseFailure(tm) ==
    LET ps == Split(Strip(tm), "/")
    IN  \/ Len(ps) # 3
        \/ Len(ps[3]) # 4
        \/ \E i \in 1..3 : ~IntOk(ps[i])

\* C8 as claimed. parse_date_key never fails: a string with a parse failure
\* gives (0, 0, 0) and a well-formed one gives (year, month, day).
C8_NeverFails ==
    key # NotCalled =>
        /\ ~Raised(key)
        /\ key.val = IF ParseFailure(t) THEN <<0, 0, 0>>
                     ELSE LET ps == Split(Strip(t), "/")
                          IN  <<IntVal(ps[3]), IntVal(ps[2]), IntVal(ps[1])>>

\* a DD/MM/YYYY date
IsDate(tm) ==
    LET ps == Split(tm, "/")
    IN  /\ Len(ps) = 3
        /\ \A i \in 1..3 : Len(ps[i]) > 0 /\ AllDigits(ps[i])
        /\ Len(ps[1]) <= 2 /\ Len(ps[2]) <= 2 /\ Len(ps[3]) = 4
        /\ IntVal(ps[2]) \in 1..12
        /\ IntVal(ps[1]) \in 1..GregorianDays(IntVal(ps[3]), IntVal(ps[2]))

\* C9 as claimed. Anchor-row errors are fatal: when the anchor row has no time
\* field, or one that is no DD/MM/YYYY date, the call ends with an exception
\* and returns no result.
C9_AnchorErrorsFatal ==
    \A c \in Calls :
        (/\ Terminal(c)
         /\ Len(rows[c]) > 0
         /\ ("time" \notin DOMAIN AnchorRow(c) \/ ~IsDate(AnchorRow(c)["time"])))
        => (pc[c] = "error" /\ Raised(exc[c]) /\ ret[c] = NoResult)

\* the text holds no data row: nothing but a first line
NoDataRows(text) == Find(Strip(text), "\n", 1) = 0

\* C10. Empty input: a call on an empty file or on a header alone ends with
\* an exception (the IndexError of rows[-1]) and returns no result.
C10_EmptyInput ==
    \A c \in Calls : (Terminal(c) /\ NoDataRows(csv[c])) =>
        /\ pc[c] = "error"
        /\ exc[c] = Raise("IndexError", 41)
        /\ ret[c] = NoResult
        /\ Len(rows[c]) = 0

\* a header alone
C10_Witness ==
    /\ pc[1] = "error"
    /\ csv[1] = "Auctioneer,note"
    /\ exc[1].exc = "IndexError"

\* the name is one of the 39 of HASH_COLUMNS
Recognized(name) == \E k \in 1..Len(HASH_COLUMNS) : HASH_COLUMNS[k] = name

\* every line of both files has as many cells as the header, and the second
\* file is the first one with the cells of every line in the order p
ColumnsPermuted ==
    /\ Len(lines[1]) = Len(lines[2])
    /\ LET n == Len(Split(lines[1][1], ","))
       IN  /\ \A c \in Calls : \A i \in 1..Len(lines[c]) :
                  Len(Split(lines[c][i], ",")) = n
           /\ \E p \in Permutations(1..n) : \A i \in 1..Len(lines[1]) :
                  Split(lines[2][i], ",") = PermuteCols(Split(lines[1][i], ","), p)

\* no name of HASH_COLUMNS stands twice in the header
NoDuplicateColumn(hd) ==
    \A i, j \in 1..Len(hd) : (i # j /\ hd[i] = hd[j]) => ~Recognized(hd[i])

\* C11 as claimed. Header-order independence: two files that hold the same
\* table with the columns in different orders (header and data lines permuted
\* the same way) give the same canonical string and the same result.
C11_AnyHeader ==
    (Terminal(1) /\ Terminal(2) /\ ColumnsPermuted) => SameOutcome

\* C11 as amended. When no recognized column name stands twice in the header,
\* two files that hold the same table with the columns in different orders
\* give the same canonical string and the same result.
C11_DistinctNames ==
    (Terminal(1) /\ Terminal(2) /\ ColumnsPermuted /\ NoDuplicateColumn(header[1]))
        => SameOutcome

\* two rows, three columns in another order, one result
C11_Witness ==
    /\ pc[1] = "done" /\ pc[2] = "done"
    /\ ColumnsPermuted
    /\ header[1] # header[2]
    /\ Len(header[1]) = 3
    /\ NoDuplicateColumn(header[1])
    /\ Len(rows[1]) = 2
    /\ rows[1][1] # rows[1][2]
    /\ ret[1] = ret[2]
    /\ full_string[1] = full_string[2]

\* the values of all rows, row after row, each row in HASH_COLUMNS order
FlatValues(rs) ==
    [k \in 1..(Len(HASH_COLUMNS) * Len(rs)) |->
        FieldsOf(rs[((k - 1) \div Len(HASH_COLUMNS)) + 1])[((k - 1) % Len(HASH_COLUMNS)) + 1]]

\* what follows the k-th of m values: nothing after the last one, the row
\* separator after the last value of a row, a comma otherwise
SeparatorAfter(k, m) ==
    IF k = m THEN "" ELSE IF k % Len(HASH_COLUMNS) = 0 THEN "|" ELSE ","

\* the values vs[lo..hi], each followed by its separator, by halves
RECURSIVE Serialized(_, _, _)
Serialized(vs, lo, hi) ==
    IF lo > hi THEN ""
    ELSE IF lo = hi THEN vs[lo] \o SeparatorAfter(lo, Len(vs))
    ELSE LET mid == (lo + hi) \div 2
         IN  Serialized(vs, lo, mid) \o Serialized(vs, mid + 1, hi)

\* the total length of the strings vs[lo..hi], by halves
RECURSIVE TotalLen(_, _, _)
TotalLen(vs, lo, hi) ==
    IF lo > hi THEN 0
    ELSE IF lo = hi THEN Len(vs[lo])
    ELSE LET mid == (lo + hi) \div 2
         IN  TotalLen(vs, lo, mid) + TotalLen(vs, mid + 1, hi)

\* the rows are in non-decreasing order of their date keys
KeysAscending(rs) ==
    \A i \in 1..(Len(rs) - 1) : ~TupleLess(SortKey(rs[i + 1]).val, SortKey(rs[i]).val)

\* C12. Canonical string: the string that is hashed holds the n >= 1 rows in
\* sorted order, each as its 39 values in HASH_COLUMNS order, a comma after
\* every value but the last of a row, a '|' after every row but the last and
\* nothing before the first value or after the last one: 38 commas per row
\* and n - 1 row separators besides the values.
C12_CanonicalString ==
    \A c \in Calls : pc[c] = "done" =>
        LET n == Len(rows[c])
            fs == full_string[c]
            vs == FlatValues(rows[c])
        IN  /\ n >= 1
            /\ Len(vs) = 39 * n
            /\ KeysAscending(rows[c])
            /\ fs = Serialized(vs, 1, Len(vs))
            /\ Len(fs) = TotalLen(vs, 1, Len(vs)) + 38 * n + (n - 1)
            /\ CountChar(fs, ",", 1, Len(fs)) = 38 * n
            /\ SubSeq(fs, 1, Len(vs[1])) = vs[1]
            /\ SubSeq(fs, Len(fs) - Len(vs[Len(vs)]) + 1, Len(fs)) = vs[Len(vs)]
            /\ ret[c].sha256 = sha256_hexdigest(fs)

\* two rows that the sort exchanged, the later one with a last column
C12_Witness ==
    /\ pc[1] = "done"
    /\ Len(rows[1]) = 2
    /\ rows[1][1]["time"] = "31/01/2026"
    /\ rows[1][2]["time"] = "09/02/2026"
    /\ lines[1][2] = "09/02/2026,x|y"
    /\ full_string[1] =
           "31/01/2026,,,,,,,,,,,,,,B,,,,,,,,,,,,,,,,,,,,,,,,|09/02/2026,,,,,,,,,,,,,,x|y,,,,,,,,,,,,,,,,,,,,,,,,"

\* the fixed words of the result string
ResultWords == "Best Purchase Day Next Month: "

\* C13. Result formatting: the result string is the fixed words followed by
\* DD-MM-YYYY, where DD are two digits whose value is predicted_day, MM two
\* digits whose value is the next month and YYYY the decimal text of the next
\* year; next_month is the same MM and YYYY joined by '/'; rows is the number
\* of data lines read.
C13_ResultFormat ==
    \A c \in Calls : pc[c] = "done" =>
        LET r == ret[c]
            w == Len(ResultWords)
            dd == SubSeq(r.result, w + 1, w + 2)
            mm == SubSeq(r.result, w + 4, w + 5)
            yyyy == SubSeq(r.result, w + 7, Len(r.result))
        IN  /\ SubSeq(r.result, 1, w) = ResultWords
            /\ Ch(r.result, w + 3) = "-" /\ Ch(r.result, w + 6) = "-"
            /\ AllDigits(dd) /\ DecVal(dd) = r.predicted_day
            /\ AllDigits(mm) /\ DecVal(mm) = next_mo[c]
            /\ IntOk(yyyy) /\ IntVal(yyyy) = next_yr[c] /\ yyyy = Str(next_yr[c])
            /\ r.next_month = mm \o "/" \o yyyy
            /\ r.rows = Len(lines[c]) - 1
            /\ r.rows = Len(rows[c])
            /\ r.last_date = last_time[c]

\* a one-digit day in a one-digit month, two data rows
C13_Witness ==
    /\ pc[1] = "done"
    /\ ret[1].predicted_day < 10
    /\ next_mo[1] = 3 /\ next_yr[1] = 2026
    /\ ret[1].rows = 2
    /\ ret[1].next_month = "03/2026"
    /\ SubSeq(ret[1].result, Len(ResultWords) + 1, Len(ret[1].result))
           = "0" \o Str(ret[1].predicted_day) \o "-03-2026"

\* call c has passed the sort step
Sorted(c) ==
    \/ pc[c] \in {"anchor", "hash", "done"}
    \/ pc[c] = "error" /\ exc[c].line > 39

\* the date key of a row that the sort step has accepted
KeyOf(row) == SortKey(row).val

\* C14. Sorting: once the sort step is passed, the rows are the rows read from
\* the file in non-decreasing order of their date keys, rows with equal keys
\* in their file order; a row whose time is a parse failure (wrong number of
\* parts, a year part not 4 characters long) stands before every row whose
\* time is a DD/MM/YYYY date; and the anchor row, whose time is last_time and
\* the reported last_date and gives the last month and year, has the greatest
\* date key.
C14_Sorting ==
    \A c \in Calls : Sorted(c) =>
        LET rs == rows[c]
            n == Len(rs)
            file == ParseRows(header[c], lines[c])
        IN  /\ n = Len(file)
            /\ \A i \in 1..(n - 1) : ~TupleLess(KeyOf(rs[i + 1]), KeyOf(rs[i]))
            /\ \E p \in Permutations(1..n) :
                   /\ \A i \in 1..n : rs[i] = file[p[i]]
                   /\ \A i, j \in 1..n :
                          (i < j /\ KeyOf(rs[i]) = KeyOf(rs[j])) => p[i] < p[j]
            /\ \A i, j \in 1..n :
                   (/\ "time" \in DOMAIN rs[i]
                    /\ ParseFailure(rs[i]["time"])
                    /\ IsDate(rs[j]["time"])) => i < j
            /\ \A i \in 1..n : ~TupleLess(KeyOf(rs[n]), KeyOf(rs[i]))
            /\ pc[c] \in {"hash", "done"} =>
                   /\ last_time[c] = rs[n]["time"]
                   /\ last_month[c] = KeyOf(rs[n])[2] \/ KeyOf(rs[n]) = <<0, 0, 0>>
            /\ pc[c] = "done" => ret[c].last_date = rs[n]["time"]

\* a date in front of a 2-digit-year time in the file, behind it after the sort
C14_Witness ==
    /\ pc[1] = "done"
    /\ Tail(lines[1]) = <<"08/02/2026,A", "08/02/26,A">>
    /\ rows[1][1]["time"] = "08/02/26"
    /\ rows[1][2]["time"] = "08/02/2026"
    /\ ret[1].last_date = "08/02/2026"

(***************************************************************************)
(* The generators and the verifier.                                        *)
(***************************************************************************)
HashColumnSet == {HASH_COLUMNS[j] : j \in 1..Len(HASH_COLUMNS)}

\* call c has parsed the rows of its file
Parsed(c) == pc[c] \in {"sort", "anchor", "hash", "done"}

\* C15. Column schema agreement: COLUMNS and HASH_COLUMNS are the same sequence
\* of 39 pairwise distinct names; every row generate_scenario and generate_data
\* produce has exactly these 39 keys; and in every row the verifier parses from
\* a generated file each of the 39 columns is present with a non-empty value,
\* so the canonical string has no empty field.
C15_SchemaAgreement ==
    /\ COLUMNS = HASH_COLUMNS
    /\ Len(HASH_COLUMNS) = 39
    /\ \A i, j \in 1..Len(HASH_COLUMNS) : i # j => HASH_COLUMNS[i] # HASH_COLUMNS[j]
    /\ \A s \in Scripts : \A i \in 1..Len(grows[s]) :
           /\ Len(grows[s][i]) = 39
           /\ {grows[s][i][j][1] : j \in 1..Len(grows[s][i])} = HashColumnSet
    /\ \A c \in Calls : Parsed(c) =>
           /\ Len(rows[c]) > 0
           /\ \A i \in 1..Len(rows[c]) : \A j \in 1..Len(HASH_COLUMNS) :
                  /\ HASH_COLUMNS[j] \in DOMAIN rows[c][i]
                  /\ Get(rows[c][i], HASH_COLUMNS[j], "") # ""
    /\ \A c \in Calls : pc[c] = "done" =>
           \A k \in 1..(Len(full_string[c]) + 1) :
               (k = 1 \/ Ch(full_string[c], k - 1) \in {",", "|"})
               => (k <= Len(full_string[c]) /\ Ch(full_string[c], k) \notin {",", "|"})

\* both scripts have generated their rows and the verifier has hashed the
\* rows generate_test_data.py wrote
C15_Witness ==
    /\ gpc[GAS] = "done"
    /\ Len(grows[GAS]) = NDays
    /\ gpc[GTD] = "done"
    /\ Len(grows[GTD]) = NDays
    /\ pc[1] = "done"
    /\ csv[1] = write_csv(grows[GTD]).val
    /\ Len(rows[1]) = NDays
    /\ AnchorRow(1)["time"] = strftime(AddDays(<<2026, 2, 8>>, NDays - 1))
    /\ CountChar(full_string[1], ",", 1, Len(full_string[1])) = 38 * NDays

\* C16. When generate_all_scenarios.main() has written the main test file
\* (line 487), that file holds Scenario 1 as generated from seed 42: the same
\* text as the file test-scenarios/test-feb-mar-2026.csv the loop wrote.
C16_MainTestIsScenario1 ==
    [][(gpc[GAS] = "write" /\ gpc'[GAS] = "done")
       => /\ ScenarioPath(SCENARIOS[1]) \in DOMAIN disk'
          /\ disk'[MAIN_TEST] = disk'[ScenarioPath(SCENARIOS[1])]
          /\ disk'[MAIN_TEST] = write_csv(generate_scenario(SCENARIOS[1], Seeded(42)).rows).val]_vars

\* C17. Canonicalization is injective on sorted row sets: two calls whose sorted
\* rows differ in number, or in the value of a recognized column of some row,
\* never build the same canonical string, also when values hold '|'.
C17_Injective ==
    (/\ pc[1] = "done"
     /\ pc[2] = "done"
     /\ \/ Len(rows[1]) # Len(rows[2])
        \/ \E i \in 1..Len(rows[1]) : \E j \in 1..Len(HASH_COLUMNS) :
               Get(rows[1][i], HASH_COLUMNS[j], "") # Get(rows[2][i], HASH_COLUMNS[j], ""))
    => full_string[1] # full_string[2]

====
